---- MODULE Spec2Model ----
(***************************************************************************)
(* Model of archives/multimodel_ollama.py: the Ollama model lifecycle      *)
(* (status check, pull-if-missing, connect) and the three-stage crew       *)
(* pipeline driven by MultiModelCrew.solve_problem, as run by main().      *)
(* Strings are TLA+ strings; the HTTP backend, the `ollama pull` process,  *)
(* the LLM constructor, the language models and the tools are the          *)
(* environment, whose answers are drawn from the small sets below.         *)
(***************************************************************************)
EXTENDS Integers, Sequences, FiniteSets, TLC

VARIABLES
    pc,              \* position of main(): which call is in progress
    models_config,   \* self.models_config
    llms,            \* self.llms, the role -> connection registry
    agents,          \* self.agents
    knowledge_base,  \* self.knowledge_base
    statusOk,        \* "none", or "True" / "False": what check_ollama_status returned
    pullIdx,         \* position of the loop over models_config.values()
    models_ready,    \* local of initialize_system
    lastPull,        \* observation of the latest pull_model_if_needed call
    lastList,        \* observation of the latest list_available_models call
    connIdx,         \* position of the loop over models_config.items()
    connAttempts,    \* roles for which LLM(...) has been called
    connFailed,      \* "none", or the role whose LLM(...) call raised
    initResult,      \* "none", "True", "False" or "raised": how initialize_system ended
    runs,            \* number of solve_problem calls made so far
    problem,         \* argument of the solve_problem call in progress (or last)
    crew,            \* the Crew built by the solve_problem call (its task list)
    taskIdx,         \* number of tasks of crew.tasks completed by kickoff
    running,         \* names of the tasks being executed
    started,         \* names of the tasks started, in start order
    outputs,         \* task name -> raw output, for the completed tasks
    inputs,          \* task name -> what the task's agent was given
    toolCalls,       \* tool invocations of this run, as <<task, tool>>
    kickoffRaised,   \* whether crew.kickoff raised in this run
    outcome,         \* "none", "returned" or "propagated": how solve_problem ended
    result,          \* the string solve_problem returned
    synthLog,        \* per finished synthesis: problem, plan, report, input
    nextId,          \* allocator of object identities
    runObjs,         \* identities of the agents, tasks and crew of this run
    pastObjs         \* identities built by earlier solve_problem calls

vars == <<pc, models_config, llms, agents, knowledge_base, statusOk, pullIdx,
          models_ready, connFailed,
          lastPull, lastList, connIdx, connAttempts, initResult, runs, problem,
          crew,
          taskIdx, running, started, outputs, inputs, toolCalls, kickoffRaised,
          outcome, result, synthLog, nextId, runObjs, pastObjs>>

initVars == <<statusOk, pullIdx, models_ready, lastPull, lastList, connIdx,
              connAttempts, connFailed,
              initResult>>
selfVars == <<models_config, llms, agents, knowledge_base>>
runVars == <<runs, problem, crew, taskIdx, running, started, outputs, inputs,
             toolCalls, kickoffRaised, outcome, result, synthLog, nextId,
             runObjs, pastObjs>>

(***************************************************************************)
(* Bounds of the model.                                                    *)
(***************************************************************************)
MaxRuns == 2
MaxToolCalls == 2

(***************************************************************************)
(* Text helpers.                                                           *)
(***************************************************************************)
\* Python's `sub in s` on strings.
Contains(sub, s) ==
    \E i \in 0..(Len(s) - Len(sub)) : SubSeq(s, i + 1, i + Len(sub)) = sub

StartsWith(s, prefix) ==
    Len(s) >= Len(prefix) /\ SubSeq(s, 1, Len(prefix)) = prefix

\* The text before the first line break.
FirstLine(s) ==
    LET brk == {i \in 1..Len(s) : SubSeq(s, i, i) = "\n"}
    IN  IF brk = {} THEN s
        ELSE SubSeq(s, 1, (CHOOSE i \in brk : \A j \in brk : i <= j) - 1)

(***************************************************************************)
(* MultiModelCrew._setup_model_configurations                              *)
(***************************************************************************)
RoleOrder == <<"analyst", "researcher", "synthesizer">>
Roles == {RoleOrder[i] : i \in 1..Len(RoleOrder)}

setup_model_configurations ==
    [r \in Roles |->
        CASE r = "analyst" ->
               [name |-> "Qwen Analyst", ollama_model |-> "qwen3:1.7b",
                temperature |-> "0.3", context_window |-> 32768]
          [] r = "researcher" ->
               [name |-> "DeepSeek Researcher", ollama_model |-> "deepseek-r1:8b",
                temperature |-> "0.6", context_window |-> 128000]
          [] r = "synthesizer" ->
               [name |-> "Gemma3 Synthesizer", ollama_model |-> "gemma3:1b",
                temperature |-> "0.6", context_window |-> 32768]]

(***************************************************************************)
(* The backend's answers to GET /api/tags, and the download's outcomes.    *)
(***************************************************************************)
Named(names) == [i \in 1..Len(names) |-> [name |-> names[i]]]

TagsResponses ==
    { [kind |-> "neterr"],
      [kind |-> "http", status |-> 500, json |-> "dict", body |-> [error |-> "down"]],
      [kind |-> "http", status |-> 200, json |-> "invalid", body |-> [raw |-> "<html>"]],
      [kind |-> "http", status |-> 200, json |-> "dict", body |-> [other |-> "x"]],
      [kind |-> "http", status |-> 200, json |-> "dict", body |-> [models |-> <<>>]],
      [kind |-> "http", status |-> 200, json |-> "dict",
       body |-> [models |-> Named(<<"qwen3:1.7b", "deepseek-r1:8b", "gemma3:1b">>)]],
      [kind |-> "http", status |-> 200, json |-> "dict",
       body |-> [models |-> Named(<<"gemma3:1b-it-qat", "hf.co/qwen3:1.7b">>)]],
      [kind |-> "http", status |-> 200, json |-> "dict",
       body |-> [models |-> <<[name |-> "gemma3:1b"], [model |-> "qwen3:1.7b"]>>]],
      [kind |-> "http", status |-> 200, json |-> "list", body |-> [items |-> <<>>]] }

DownloadOutcomes ==
    { [kind |-> "exit", returncode |-> 0],
      [kind |-> "exit", returncode |-> 1],
      [kind |-> "timeout"],
      [kind |-> "oserror"] }

(***************************************************************************)
(* OllamaManager                                                           *)
(***************************************************************************)
\* requests.get raising RequestException is kind "neterr".
check_ollama_status(resp) ==
    IF resp.kind = "neterr" THEN FALSE ELSE resp.status = 200

\* [raised, val]: the exception that leaves the method ("none" when it
\* returns) and the list returned.  response.json() on a body that is not
\* JSON raises requests' JSONDecodeError, a RequestException, which the
\* handler catches; .get on a JSON list and model['name'] on an entry
\* without that key raise AttributeError and KeyError, which it does not.
list_available_models(resp) ==
    IF resp.kind = "neterr" THEN [raised |-> "none", val |-> <<>>]
    ELSE IF resp.status = 200 THEN
        IF resp.json = "invalid" THEN [raised |-> "none", val |-> <<>>]
        ELSE IF resp.json # "dict" THEN [raised |-> "AttributeError", val |-> <<>>]
        ELSE LET ms == IF "models" \in DOMAIN resp.body THEN resp.body.models ELSE <<>>
             IN  IF \E i \in 1..Len(ms) : "name" \notin DOMAIN ms[i]
                 THEN [raised |-> "KeyError", val |-> <<>>]
                 ELSE [raised |-> "none", val |-> [i \in 1..Len(ms) |-> ms[i].name]]
    ELSE [raised |-> "none", val |-> <<>>]

\* The catalog query failed: a network error, a status other than 200, or
\* a body that is not a JSON object whose "models" (when present) is a list
\* of entries that each carry a name.
QueryFailed(resp) ==
    \/ resp.kind = "neterr"
    \/ resp.status # 200
    \/ resp.json # "dict"
    \/ /\ "models" \in DOMAIN resp.body
       /\ \E i \in 1..Len(resp.body.models) : "name" \notin DOMAIN resp.body.models[i]

check_model_availability(model_name, resp) ==
    LET l == list_available_models(resp)
    IN  IF l.raised # "none" THEN [raised |-> l.raised, val |-> FALSE]
        ELSE [raised |-> "none",
              val |-> \E i \in 1..Len(l.val) : Contains(model_name, l.val[i])]

\* Variant: any exit of the download counts as success.
DownloadResult_AnyExit(dl) == dl.kind = "exit"

\* The try block around subprocess.run: the value returned for a download
\* outcome.  TimeoutExpired and every other Exception are caught.
DownloadResult(dl) ==
    IF dl.kind = "exit" THEN dl.returncode = 0 ELSE FALSE

\* Variant: the early return for an available model is missing.
pull_model_if_needed_NoEarlyReturn(model_name, resp, dl) ==
    LET a == check_model_availability(model_name, resp)
    IN  IF a.raised # "none"
        THEN [model |-> model_name, raised |-> a.raised, ret |-> FALSE,
              available |-> "raised", downloads |-> 0, dl |-> [kind |-> "none"]]
        ELSE [model |-> model_name, raised |-> "none", ret |-> DownloadResult(dl),
              available |-> IF a.val THEN "yes" ELSE "no", downloads |-> 1,
              dl |-> dl]

\* [raised, ret, available, downloads, dl]: `available` is what
\* check_model_availability answered, `downloads` the number of
\* subprocess.run(["ollama", "pull", ...]) calls made, `dl` their outcome.
pull_model_if_needed(model_name, resp, dl) ==
    LET a == check_model_availability(model_name, resp)
    IN  IF a.raised # "none"
        THEN [model |-> model_name, raised |-> a.raised, ret |-> FALSE,
              available |-> "raised", downloads |-> 0, dl |-> [kind |-> "none"]]
        ELSE IF a.val
        THEN [model |-> model_name, raised |-> "none", ret |-> TRUE,
              available |-> "yes", downloads |-> 0, dl |-> [kind |-> "none"]]
        ELSE [model |-> model_name, raised |-> "none", ret |-> DownloadResult(dl),
              available |-> "no", downloads |-> 1, dl |-> dl]

\* LLM(model=f"ollama/{config.ollama_model}", ...)
LLM(config) ==
    [model |-> "ollama/" \o config.ollama_model,
     base_url |-> "http://localhost:11434",
     temperature |-> config.temperature,
     max_tokens |-> 4096, top_p |-> "0.9",
     frequency_penalty |-> "0.0", presence_penalty |-> "0.0"]

NoPull == [model |-> "", raised |-> "none", ret |-> FALSE, available |-> "none",
           downloads |-> 0, dl |-> [kind |-> "none"]]
NoList == [called |-> FALSE, failed |-> FALSE,
           listed |-> [raised |-> "none", val |-> << >>]]
NoCrew == [tasks |-> <<>>, process |-> "none"]


(***************************************************************************)
(* What the language models, the tools and the user can produce.           *)
(***************************************************************************)
Problems == {"What is 2+2?", "Compare RISC-V and ARM."}
Plans == {"SEARCH\n1. RISC-V vs ARM architecture", "REASON\n1. Add the numbers."}
Reports == {"2+2 equals 4.", "RISC-V is an open ISA; ARM is licensed."}
Answers == {"The answer is 4.", "RISC-V is open, ARM is licensed."}
Errors == {"litellm timeout", "context window exceeded"}
ToolErrors == {"brave api key missing"}

(***************************************************************************)
(* MultiModelCrew.solve_problem: the objects built for one run.            *)
(***************************************************************************)
\* self.llms[key]; a missing key raises KeyError.
HasLlms == \A r \in Roles : r \in DOMAIN llms

analyst ==
    [key |-> "analyst", role |-> "Problem Analyst and Strategist",
     llm |-> llms["analyst"], tools |-> << >>]

researcher ==
    [key |-> "researcher", role |-> "Conditional Information Processor",
     llm |-> llms["researcher"], tools |-> <<"search_tool", "scrape_tool">>]

synthesizer ==
    [key |-> "synthesizer", role |-> "Solution Synthesizer",
     llm |-> llms["synthesizer"], tools |-> << >>]

\* The description is an f-string: the problem text is pasted in.
analysis_task(p) ==
    [name |-> "analysis_task",
     description |-> "Analyze the following problem: '" \o p \o "'.",
     agent |-> analyst, context |-> << >>]

research_task ==
    [name |-> "research_task",
     description |-> "Read the plan provided by the Problem Analyst.",
     agent |-> researcher, context |-> <<"analysis_task">>]

\* Variant: the synthesis task also names the analysis task as context.
synthesis_task_WithPlan ==
    [name |-> "synthesis_task",
     description |-> "You have been given a report by the 'Conditional Information Processor'.",
     agent |-> synthesizer, context |-> <<"analysis_task", "research_task">>]

synthesis_task ==
    [name |-> "synthesis_task",
     description |-> "You have been given a report by the 'Conditional Information Processor'.",
     agent |-> synthesizer, context |-> <<"research_task">>]

\* Variant: the task list is given in another order.
Crew_ResearchFirst(p) ==
    [tasks |-> <<research_task, analysis_task(p), synthesis_task>>,
     process |-> "sequential", memory |-> FALSE]

Crew(p) ==
    [tasks |-> <<analysis_task(p), research_task, synthesis_task>>,
     process |-> "sequential", memory |-> FALSE]

\* Variant: the objects are built once and reused by later calls.
NewObjects_Cached(n) == 1..(3 + 3 + 1)

\* Identities of the objects a solve_problem call constructs: three agents,
\* three tasks and the crew, none of them kept from an earlier call.
NewObjects(n) == (n + 1)..(n + 3 + 3 + 1)

(***************************************************************************)
(* crew.kickoff(inputs={'problem': problem}) under Process.sequential.     *)
(***************************************************************************)
\* Replaces each "{problem}" placeholder of a task text by the input.
RECURSIVE Interpolate(_, _)
Interpolate(text, p) ==
    LET ph == "{problem}"
    IN  IF Len(text) < Len(ph) THEN text
        ELSE IF SubSeq(text, 1, Len(ph)) = ph
        THEN p \o Interpolate(SubSeq(text, Len(ph) + 1, Len(text)), p)
        ELSE SubSeq(text, 1, 1) \o Interpolate(SubSeq(text, 2, Len(text)), p)

\* The outputs of the tasks a task names as its context, those that exist.
RECURSIVE ContextOf(_, _)
ContextOf(names, outs) ==
    IF names = << >> THEN << >>
    ELSE IF Head(names) \in DOMAIN outs
    THEN <<outs[Head(names)]>> \o ContextOf(Tail(names), outs)
    ELSE ContextOf(Tail(names), outs)

\* What the agent of a task is prompted with.
TaskInput(task, outs, p) ==
    [description |-> Interpolate(task.description, p),
     context |-> ContextOf(task.context, outs)]

\* What the model behind a task's agent may answer.
ModelOutputs(task) ==
    CASE task.agent.key = "analyst" -> Plans
      [] task.agent.key = "researcher" -> Reports
      [] task.agent.key = "synthesizer" -> Answers

TaskNamed(n) == CHOOSE t \in {crew.tasks[i] : i \in 1..Len(crew.tasks)} : t.name = n

Get(f, k) == IF k \in DOMAIN f THEN f[k] ELSE ""

Put(f, k, v) == [x \in (DOMAIN f) \cup {k} |-> IF x = k THEN v ELSE f[x]]

\* Variant: the message is returned without the prefix.
ExceptionResult_NoPrefix(e) == e

\* solve_problem, lines 330-332: the string returned for a caught exception.
ExceptionResult(e) == "Error: " \o e

\* solve_problem, line 328.
NormalResult(outs) == Get(outs, crew.tasks[Len(crew.tasks)].name)

(***************************************************************************)
(* MultiModelCrew.__init__, then main() calls initialize_system.           *)
(***************************************************************************)
Init ==
    /\ pc = "init_status"
    /\ models_config = setup_model_configurations
    /\ llms = << >>
    /\ agents = << >>
    /\ knowledge_base = << >>
    /\ statusOk = "none"
    /\ connFailed = "none"
    /\ pullIdx = 1
    /\ models_ready = TRUE
    /\ lastPull = NoPull
    /\ lastList = NoList
    /\ connIdx = 1
    /\ connAttempts = << >>
    /\ initResult = "none"
    /\ runs = 0
    /\ problem = ""
    /\ crew = NoCrew
    /\ taskIdx = 0
    /\ running = {}
    /\ started = << >>
    /\ outputs = << >>
    /\ inputs = << >>
    /\ toolCalls = << >>
    /\ kickoffRaised = FALSE
    /\ outcome = "none"
    /\ result = ""
    /\ synthLog = {}
    /\ nextId = 0
    /\ runObjs = {}
    /\ pastObjs = {}

\* initialize_system, lines 173-179: the status check.
InitCheckStatus ==
    /\ pc = "init_status"
    /\ \E resp \in TagsResponses :
          /\ statusOk' = IF check_ollama_status(resp) THEN "True" ELSE "False"
          /\ IF check_ollama_status(resp)
             THEN pc' = "init_pull" /\ initResult' = initResult
             ELSE pc' = "exited" /\ initResult' = "False"
    /\ UNCHANGED <<pullIdx, models_ready, lastPull, lastList, connIdx, connAttempts,
                   connFailed>>
    /\ UNCHANGED <<selfVars, runVars>>

\* initialize_system, lines 183-185: one iteration of the download loop.
InitPullModel ==
    /\ pc = "init_pull"
    /\ pullIdx <= Len(RoleOrder)
    /\ \E resp \in TagsResponses, dl \in DownloadOutcomes :
          LET p == pull_model_if_needed(models_config[RoleOrder[pullIdx]].ollama_model,
                                        resp, dl)
          IN  /\ lastPull' = p
              /\ lastList' = [called |-> TRUE, failed |-> QueryFailed(resp),
                              listed |-> list_available_models(resp)]
              /\ IF p.raised # "none"
                 THEN /\ pc' = "crashed"
                      /\ initResult' = "raised"
                      /\ UNCHANGED <<pullIdx, models_ready>>
                 ELSE /\ pc' = pc
                      /\ initResult' = initResult
                      /\ pullIdx' = pullIdx + 1
                      /\ models_ready' = IF p.ret THEN models_ready ELSE FALSE
    /\ UNCHANGED <<statusOk, connIdx, connAttempts, connFailed>>
    /\ UNCHANGED <<selfVars, runVars>>

\* initialize_system, lines 187-189: after the loop.
InitModelsReady ==
    /\ pc = "init_pull"
    /\ pullIdx > Len(RoleOrder)
    /\ IF models_ready
       THEN pc' = "init_connect" /\ initResult' = initResult
       ELSE pc' = "exited" /\ initResult' = "False"
    /\ UNCHANGED <<statusOk, pullIdx, models_ready, lastPull, lastList, connIdx,
                   connAttempts, connFailed>>
    /\ UNCHANGED <<selfVars, runVars>>

\* Variant: the handler reports the failure and does not re-raise.
setup_llm_connections_NoReraise ==
    /\ pc = "init_connect"
    /\ connIdx <= Len(RoleOrder)
    /\ connAttempts' = Append(connAttempts, RoleOrder[connIdx])
    /\ \E ok \in BOOLEAN :
          IF ok
          THEN /\ llms' = [r \in (DOMAIN llms) \cup {RoleOrder[connIdx]} |->
                             IF r = RoleOrder[connIdx]
                             THEN LLM(models_config[r]) ELSE llms[r]]
               /\ connFailed' = connFailed
          ELSE /\ llms' = llms
               /\ connFailed' = RoleOrder[connIdx]
    /\ connIdx' = connIdx + 1
    /\ pc' = pc
    /\ initResult' = initResult
    /\ UNCHANGED <<statusOk, pullIdx, models_ready, lastPull, lastList>>
    /\ UNCHANGED <<models_config, agents, knowledge_base, runVars>>

\* _setup_llm_connections: one iteration; LLM(...) either returns a
\* connection or raises, and the handler re-raises.
setup_llm_connections ==
    /\ pc = "init_connect"
    /\ connIdx <= Len(RoleOrder)
    /\ connAttempts' = Append(connAttempts, RoleOrder[connIdx])
    /\ \E ok \in BOOLEAN :
          IF ok
          THEN /\ llms' = [r \in (DOMAIN llms) \cup {RoleOrder[connIdx]} |->
                             IF r = RoleOrder[connIdx]
                             THEN LLM(models_config[r]) ELSE llms[r]]
               /\ connIdx' = connIdx + 1
               /\ pc' = pc
               /\ initResult' = initResult
               /\ connFailed' = connFailed
          ELSE /\ pc' = "crashed"
               /\ initResult' = "raised"
               /\ connFailed' = RoleOrder[connIdx]
               /\ UNCHANGED <<llms, connIdx>>
    /\ UNCHANGED <<statusOk, pullIdx, models_ready, lastPull, lastList>>
    /\ UNCHANGED <<models_config, agents, knowledge_base, runVars>>

\* initialize_system, lines 194-195.
InitReturnTrue ==
    /\ pc = "init_connect"
    /\ connIdx > Len(RoleOrder)
    /\ pc' = "menu"
    /\ initResult' = "True"
    /\ UNCHANGED <<statusOk, pullIdx, models_ready, lastPull, lastList, connIdx,
                   connAttempts, connFailed>>
    /\ UNCHANGED <<selfVars, runVars>>


\* main(), lines 370-380, and solve_problem, lines 232-315: a menu choice
\* calls solve_problem, which builds agents, tasks and crew.
SolveProblem ==
    /\ pc = "menu"
    /\ runs < MaxRuns
    /\ runs' = runs + 1
    /\ \E p \in Problems :
          /\ problem' = p
          /\ IF HasLlms
             THEN /\ crew' = Crew(p)
                  /\ runObjs' = NewObjects(nextId)
                  /\ nextId' = nextId + Cardinality(NewObjects(nextId))
                  /\ outcome' = "none"
                  /\ pc' = "kickoff"
             ELSE /\ outcome' = "propagated"
                  /\ pc' = "menu"
                  /\ crew' = NoCrew
                  /\ runObjs' = {}
                  /\ nextId' = nextId
    /\ pastObjs' = pastObjs \cup runObjs
    /\ taskIdx' = 0
    /\ running' = {}
    /\ started' = << >>
    /\ outputs' = << >>
    /\ inputs' = << >>
    /\ toolCalls' = << >>
    /\ kickoffRaised' = FALSE
    /\ result' = ""
    /\ UNCHANGED <<synthLog, selfVars, initVars>>

\* kickoff: the next task of crew.tasks starts; under the sequential
\* process only when no task is executing.
StartTask ==
    /\ pc = "kickoff"
    /\ Len(started) < Len(crew.tasks)
    /\ crew.process = "sequential" => running = {}
    /\ LET t == crew.tasks[Len(started) + 1]
           given == TaskInput(t, outputs, problem)
       IN  /\ running' = running \cup {t.name}
           /\ started' = Append(started, t.name)
           /\ inputs' = Put(inputs, t.name, given)
           /\ synthLog' = IF t.agent.key = "synthesizer"
                          THEN synthLog \cup
                               {[problem |-> problem,
                                 plan |-> Get(outputs, "analysis_task"),
                                 report |-> Get(outputs, "research_task"),
                                 input |-> given]}
                          ELSE synthLog
    /\ UNCHANGED <<pc, runs, problem, crew, taskIdx, outputs, toolCalls,
                   kickoffRaised, outcome, result, nextId, runObjs, pastObjs>>
    /\ UNCHANGED <<selfVars, initVars>>

\* solve_problem, lines 330-332: an exception leaving kickoff is caught.
CatchException(e) ==
    /\ kickoffRaised' = TRUE
    /\ result' = ExceptionResult(e)
    /\ outcome' = "returned"
    /\ running' = {}
    /\ pc' = "menu"

\* The executing task's agent invokes one of its tools; the call answers or
\* raises.
ToolCall ==
    /\ pc = "kickoff"
    /\ Len(toolCalls) < MaxToolCalls
    /\ \E n \in running :
          \E i \in 1..Len(TaskNamed(n).agent.tools) :
             /\ toolCalls' = Append(toolCalls, <<n, TaskNamed(n).agent.tools[i]>>)
             /\ \/ UNCHANGED <<pc, running, kickoffRaised, outcome, result>>
                \/ \E e \in ToolErrors : CatchException(e)
    /\ UNCHANGED <<runs, problem, crew, taskIdx, started, outputs, inputs,
                   synthLog, nextId, runObjs, pastObjs>>
    /\ UNCHANGED <<selfVars, initVars>>

\* The executing task's model call answers: the task completes.
FinishTask ==
    /\ pc = "kickoff"
    /\ \E n \in running :
          \E out \in ModelOutputs(TaskNamed(n)) :
             /\ outputs' = Put(outputs, n, out)
             /\ running' = running \ {n}
    /\ taskIdx' = taskIdx + 1
    /\ UNCHANGED <<pc, runs, problem, crew, started, inputs, toolCalls,
                   kickoffRaised, outcome, result, synthLog, nextId, runObjs,
                   pastObjs>>
    /\ UNCHANGED <<selfVars, initVars>>

\* The executing task's model call raises.
TaskRaise ==
    /\ pc = "kickoff"
    /\ running # {}
    /\ \E e \in Errors : CatchException(e)
    /\ UNCHANGED <<runs, problem, crew, taskIdx, started, outputs, inputs,
                   toolCalls, synthLog, nextId, runObjs, pastObjs>>
    /\ UNCHANGED <<selfVars, initVars>>

\* solve_problem, lines 320-328: kickoff returns the last task's output.
KickoffReturn ==
    /\ pc = "kickoff"
    /\ taskIdx = Len(crew.tasks)
    /\ running = {}
    /\ result' = NormalResult(outputs)
    /\ outcome' = "returned"
    /\ pc' = "menu"
    /\ UNCHANGED <<runs, problem, crew, taskIdx, running, started, outputs,
                   inputs, toolCalls, kickoffRaised, synthLog, nextId, runObjs,
                   pastObjs>>
    /\ UNCHANGED <<selfVars, initVars>>

\* main(), lines 367-369: choice 0.
MenuExit ==
    /\ pc = "menu"
    /\ pc' = "exited"
    /\ UNCHANGED <<selfVars, initVars, runVars>>

Next ==
    \/ InitCheckStatus
    \/ InitPullModel
    \/ InitModelsReady
    \/ setup_llm_connections
    \/ InitReturnTrue
    \/ SolveProblem
    \/ StartTask
    \/ ToolCall
    \/ FinishTask
    \/ TaskRaise
    \/ KickoffReturn
    \/ MenuExit

Spec == Init /\ [][Next]_vars

(***************************************************************************)
(* Properties.                                                             *)
(***************************************************************************)
InitEnded == pc \notin {"init_status", "init_pull", "init_connect"}

IsPrefix(a, b) == Len(a) <= Len(b) /\ SubSeq(b, 1, Len(a)) = a

StageOrder == <<"analysis_task", "research_task", "synthesis_task">>

\* The tools the research stage invoked in this run, in order.
RECURSIVE ToolsOf(_, _)
ToolsOf(calls, n) ==
    IF calls = << >> THEN << >>
    ELSE IF Head(calls)[1] = n THEN <<Head(calls)[2]>> \o ToolsOf(Tail(calls), n)
    ELSE ToolsOf(Tail(calls), n)

\* C1: once initialize_system has ended after the status check answered
\* false or after pull_model_if_needed returned false for some model, it has
\* returned False and self.llms is empty.
C1_InitFailureReturnsFalse ==
    (InitEnded /\ (statusOk = "False" \/ ~models_ready))
        => (initResult = "False" /\ llms = << >>)

\* C2: when crew.kickoff raised (in a stage's model call or in a tool call),
\* solve_problem returned, and what it returned starts with "Error: ".
C2_KickoffExceptionsCaught ==
    kickoffRaised => (outcome = "returned" /\ StartsWith(result, "Error: "))

C2_Witness ==
    /\ kickoffRaised
    /\ result = "Error: brave api key missing"
    /\ toolCalls # << >>

\* C3: at most one stage runs at a time, the stages start in the order
\* analysis, research, synthesis, and research (synthesis) has started only
\* if analysis (research) has completed.
C3_StagesSequential ==
    /\ Cardinality(running) <= 1
    /\ IsPrefix(started, StageOrder)
    /\ \A i \in 1..Len(started) :
          /\ started[i] = "research_task" => "analysis_task" \in DOMAIN outputs
          /\ started[i] = "synthesis_task" => "research_task" \in DOMAIN outputs

C3_Witness ==
    /\ running = {"synthesis_task"}
    /\ started = StageOrder

\* C4: a pull_model_if_needed call whose availability check answered true
\* returned True and ran no download.
C4_AvailableMeansNoDownload ==
    lastPull.available = "yes"
        => (lastPull.raised = "none" /\ lastPull.ret = TRUE /\ lastPull.downloads = 0)

C4_Witness ==
    /\ lastPull.available = "yes"
    /\ lastPull.model = "gemma3:1b"
    /\ lastPull.ret = TRUE

\* C5: a pull_model_if_needed call whose availability check answered false
\* ran the download exactly once, raised nothing, and returned True exactly
\* when the download exited with code 0.
C5_DownloadOnceExitCodeDecides ==
    lastPull.available = "no"
        => /\ lastPull.downloads = 1
           /\ lastPull.raised = "none"
           /\ lastPull.ret = (lastPull.dl.kind = "exit" /\ lastPull.dl.returncode = 0)

C5_Witness ==
    /\ lastPull.available = "no"
    /\ lastPull.dl.kind = "timeout"
    /\ lastPull.ret = FALSE
    /\ lastPull.downloads = 1

\* C6: once LLM(...) has raised for a role, initialize_system has raised
\* (it never reports success), every role up to the failing one was tried
\* exactly once and in order, no later role was tried, and the registry holds
\* the roles before the failing one only.
C6_ConnectionFailureAborts ==
    connFailed # "none"
        => /\ initResult = "raised"
           /\ pc = "crashed"
           /\ IsPrefix(connAttempts, RoleOrder)
           /\ connAttempts[Len(connAttempts)] = connFailed
           /\ DOMAIN llms = {connAttempts[i] : i \in 1..(Len(connAttempts) - 1)}

C6_Witness ==
    /\ connFailed = "researcher"
    /\ connAttempts = <<"analyst", "researcher">>

\* C7: what the synthesis stage is given is its fixed description and the
\* research report alone, so any two runs with the same report give it the
\* same input whatever their problem and plan.
C7_SynthesisSeesReportOnly ==
    /\ \A a \in synthLog : a.input.context = <<a.report>>
    /\ \A a, b \in synthLog : a.report = b.report => a.input = b.input

C7_Witness ==
    \E a, b \in synthLog :
        /\ a.problem # b.problem
        /\ a.plan # b.plan
        /\ a.report = b.report
        /\ a.input = b.input

\* C8: once the research stage has completed, a plan whose first line is
\* SEARCH means the stage called the search tool and then the scrape tool,
\* and a plan whose first line is REASON means no tool was called in the run.
C8_PlanDecidesToolUse ==
    "research_task" \in DOMAIN outputs
        => LET plan == Get(outputs, "analysis_task")
               used == ToolsOf(toolCalls, "research_task")
           IN  /\ FirstLine(plan) = "SEARCH"
                    => (Len(used) >= 2 /\ used[1] = "search_tool"
                        /\ used[2] = "scrape_tool")
               /\ FirstLine(plan) = "REASON" => toolCalls = << >>

\* C9: throughout the solve_problem calls the registry, the model
\* configuration and the other attributes of the instance are what
\* initialization left, the objects of a run are none of the objects of an
\* earlier run, and no call raises.
C9_NoStateAcrossRuns ==
    /\ runObjs \cap pastObjs = {}
    /\ outcome # "propagated"
    /\ initResult = "True"
          => /\ llms = [r \in Roles |-> LLM(setup_model_configurations[r])]
             /\ models_config = setup_model_configurations
             /\ agents = << >>
             /\ knowledge_base = << >>

C9_Witness ==
    /\ runs = 2
    /\ outcome = "returned"
    /\ kickoffRaised
    /\ "synthesis_task" \notin {started[i] : i \in 1..Len(started)}
    /\ \E a \in synthLog : a.problem = problem

\* C10: a list_available_models call whose catalog query failed (network
\* error, status other than 200, or a body that is not a list of named
\* models) raised nothing and returned the empty list.
C10_ListFailureGivesEmpty ==
    (lastList.called /\ lastList.failed)
        => (lastList.listed.raised = "none" /\ lastList.listed.val = << >>)
====
